---- MODULE Spec2Model ----
(***************************************************************************)
(* Model of the dioxus mobile-geolocation crate: the facade of lib.rs, the *)
(* CoreLocation backend of darwin.rs, the browser backend of web.rs and   *)
(* the stub of unsupported targets. One behaviour is one process built for *)
(* one target with one set of cargo features.                              *)
(***************************************************************************)
EXTENDS Integers, Sequences, FiniteSets, TLC

\* ------------------------------------------------------------------ bounds
\* Number of API calls one behaviour makes (caps the call counters).
MaxCalls == 3

\* ------------------------------------------------------------ value domains
None == <<>>
Some(x) == <<x>>

Threads == {"main", "worker"}
MainThread == "main"

Targets == {"darwin", "web", "unsupported"}

\* The three cargo features of the crate (lib.rs, "## Features").
Features == {"location-fine", "location-coarse", "background-location"}

\* `location-coarse` is the default feature.
DefaultFeatures == {"location-coarse"}

\* CLAuthorizationStatus of objc2_core_location, as used by darwin.rs.
CLAuthorizationStatus ==
    {"NotDetermined", "Restricted", "Denied", "AuthorizedAlways", "AuthorizedWhenInUse"}

\* Fixes the native side can deliver (CLLocation.coordinate / Position.coords).
Positions ==
    { [latitude |-> 37, longitude |-> -122], [latitude |-> 51, longitude |-> 0] }

OptionPositions == {None} \cup { Some(p) : p \in Positions }

VARIABLES
    target,               \* the build target (cfg of lib.rs), fixed per process
    nCalls,               \* API calls started so far
    call,                 \* per thread: the current / most recent API call
    pc,                   \* per thread: "idle" or "sleep" (inside thread::sleep)
    \* lib.rs
    features,             \* the cargo features the process was built with
    facade,               \* the most recent facade call: what it touched and ran, in order
    \* darwin.rs
    LOCATION_MANAGER,     \* MainThreadCell: None or Some(handle)
    created,              \* number of CLLocationManager::new() calls
    authorizationStatus,  \* what manager.authorizationStatus() answers
    location,             \* what manager.location() answers
    updating,             \* between startUpdatingLocation and stopUpdatingLocation
    nativeCount,          \* native CoreLocation calls performed so far
    \* web.rs
    window,               \* per thread: does web_sys::window() answer Some
    geolocation,          \* does navigator.geolocation() answer Ok
    CACHED_POSITION,      \* thread_local RefCell<Option<(f64, f64)>>
    requests,             \* position requests whose callback has not fired yet
    issued,               \* native getCurrentPosition calls that were accepted
    latestSync,           \* per thread: id of the most recent request of get_current_position_sync
    lastSuccess,          \* per thread: coordinate of the last success callback of a sync request
    delivered             \* per thread: last position handed to a caller-supplied success callback

commonVars == <<target, nCalls, call, pc>>
darwinVars == <<LOCATION_MANAGER, created, authorizationStatus, location, updating, nativeCount>>
facadeVars == <<features, facade>>
webVars == <<window, geolocation, CACHED_POSITION, requests, issued, latestSync, lastSuccess,
             delivered>>
vars == <<commonVars, facadeVars, darwinVars, webVars>>

\* The record kept for an API call: what it saw, what it did, what it returned.
NoCall ==
    [ op |-> "none", done |-> TRUE, retBool |-> FALSE, retLoc |-> None,
      auth |-> "NotQueried", first |-> None, second |-> None, log |-> <<>> ]

Count(seq, x) == Cardinality({ i \in DOMAIN seq : seq[i] = x })

\* ------------------------------------------------------------------ darwin.rs
\* Variant: the marker is handed out on every thread.
MainThreadMarker_new_any(t) == Some("mtm")

\* MainThreadMarker::new(): Some only on the main thread.
MainThreadMarker_new(t) == IF t = MainThread THEN Some("mtm") ELSE None

\* Variant: a new manager on every call instead of get_or_init.
get_location_manager_fresh(mtm) ==
    /\ LOCATION_MANAGER' = Some(created + 1)
    /\ created' = created + 1

\* get_location_manager: LOCATION_MANAGER.get_or_init_with(mtm, CLLocationManager::new)
get_location_manager(mtm) ==
    /\ LOCATION_MANAGER' =
           IF LOCATION_MANAGER = None THEN Some(created + 1) ELSE LOCATION_MANAGER
    /\ created' = IF LOCATION_MANAGER = None THEN created + 1 ELSE created

\* Variant: prompts again after a refusal.
ShouldRequest_orDenied(auth_status) == auth_status \in {"NotDetermined", "Denied"}

\* `if auth_status == CLAuthorizationStatus::NotDetermined`
ShouldRequest(auth_status) == auth_status = "NotDetermined"

\* Variant: reports the grant status instead of the initiation.
RequestPermissionResult_granted(auth_status) ==
    auth_status \in {"NotDetermined", "AuthorizedAlways", "AuthorizedWhenInUse"}

\* The value request_permission returns once the marker was obtained.
RequestPermissionResult(auth_status) == TRUE

\* Variant: the unauthorized arm gives up.
ProceedAfterMatch_gated(auth_status) ==
    CASE auth_status \in {"AuthorizedAlways", "AuthorizedWhenInUse"} -> TRUE
      [] OTHER -> FALSE

\* The `match auth_status` of last_known: both arms are empty and fall through.
ProceedAfterMatch(auth_status) ==
    CASE auth_status \in {"AuthorizedAlways", "AuthorizedWhenInUse"} -> TRUE
      [] OTHER -> TRUE

\* Variant: the pair is built in the wrong order.
CoordinateOf_swapped(loc) == <<loc.longitude, loc.latitude>>

\* (coordinate.latitude, coordinate.longitude)
CoordinateOf(loc) == <<loc.latitude, loc.longitude>>

\* Native CoreLocation calls in a call log (thread::sleep is logged, not counted).
NativeCalls(log) == Len(log) - Count(log, "sleep")

darwin_request_permission(t) ==
    LET mtm == MainThreadMarker_new(t) IN
    IF mtm = None
    THEN /\ call' = [call EXCEPT ![t] =
                        [NoCall EXCEPT !.op = "request_permission", !.retBool = FALSE]]
         /\ UNCHANGED <<pc, darwinVars>>
    ELSE LET auth_status == authorizationStatus
             log == <<"authorizationStatus">> \o
                    (IF ShouldRequest(auth_status)
                     THEN <<"requestWhenInUseAuthorization">> ELSE <<>>)
         IN /\ get_location_manager(mtm)
            /\ call' = [call EXCEPT ![t] =
                           [NoCall EXCEPT !.op = "request_permission",
                                          !.auth = auth_status,
                                          !.log = log,
                                          !.retBool = RequestPermissionResult(auth_status)]]
            /\ nativeCount' = nativeCount + NativeCalls(log)
            /\ UNCHANGED <<pc, authorizationStatus, location, updating>>

\* last_known up to the point where it blocks in thread::sleep.
darwin_last_known(t) ==
    LET mtm == MainThreadMarker_new(t) IN
    IF mtm = None
    THEN /\ call' = [call EXCEPT ![t] = [NoCall EXCEPT !.op = "last_known"]]
         /\ UNCHANGED <<pc, darwinVars>>
    ELSE LET auth_status == authorizationStatus IN
         /\ get_location_manager(mtm)
         /\ IF ~ProceedAfterMatch(auth_status)   \* never: the match falls through
            THEN /\ call' = [call EXCEPT ![t] =
                                [NoCall EXCEPT !.op = "last_known",
                                               !.auth = auth_status,
                                               !.log = <<"authorizationStatus">>]]
                 /\ nativeCount' = nativeCount + 1
                 /\ UNCHANGED <<pc, updating>>
            ELSE IF location # None
            THEN /\ call' = [call EXCEPT ![t] =
                                [NoCall EXCEPT !.op = "last_known",
                                               !.auth = auth_status,
                                               !.first = location,
                                               !.log = <<"authorizationStatus", "location">>,
                                               !.retLoc = Some(CoordinateOf(location[1]))]]
                 /\ nativeCount' = nativeCount + 2
                 /\ UNCHANGED <<pc, updating>>
            ELSE /\ call' = [call EXCEPT ![t] =
                                [NoCall EXCEPT !.op = "last_known",
                                               !.done = FALSE,
                                               !.auth = auth_status,
                                               !.first = location,
                                               !.log = <<"authorizationStatus", "location",
                                                         "startUpdatingLocation", "sleep">>]]
                 /\ nativeCount' = nativeCount + 3
                 /\ updating' = TRUE
                 /\ pc' = [pc EXCEPT ![t] = "sleep"]
         /\ UNCHANGED <<authorizationStatus, location>>

\* Variant: returns early on a miss, before stopUpdatingLocation.
darwin_last_known_wake_leak(t) ==
    /\ target = "darwin"
    /\ pc[t] = "sleep"
    /\ LET second == location IN
       /\ call' = [call EXCEPT ![t] =
                      [@ EXCEPT !.done = TRUE,
                                !.second = second,
                                !.log = @ \o (IF second = None THEN <<"location">>
                                              ELSE <<"location", "stopUpdatingLocation">>),
                                !.retLoc = IF second = None THEN None
                                           ELSE Some(CoordinateOf(second[1]))]]
       /\ updating' = (second = None)
       /\ nativeCount' = nativeCount + (IF second = None THEN 1 ELSE 2)
    /\ pc' = [pc EXCEPT ![t] = "idle"]
    /\ UNCHANGED <<target, nCalls, facadeVars, LOCATION_MANAGER, created,
                   authorizationStatus, location, webVars>>

\* Variant: stops the updates and returns the first answer without asking again.
darwin_last_known_wake_stale(t) ==
    /\ target = "darwin"
    /\ pc[t] = "sleep"
    /\ call' = [call EXCEPT ![t] =
                   [@ EXCEPT !.done = TRUE,
                             !.log = @ \o <<"stopUpdatingLocation">>,
                             !.retLoc = None]]
    /\ updating' = FALSE
    /\ nativeCount' = nativeCount + 1
    /\ pc' = [pc EXCEPT ![t] = "idle"]
    /\ UNCHANGED <<target, nCalls, facadeVars, LOCATION_MANAGER, created,
                   authorizationStatus, location, webVars>>

\* last_known after the sleep: re-query, stop updates, return what was found.
darwin_last_known_wake(t) ==
    /\ target = "darwin"
    /\ pc[t] = "sleep"
    /\ LET second == location IN
       call' = [call EXCEPT ![t] =
                   [@ EXCEPT !.done = TRUE,
                             !.second = second,
                             !.log = @ \o <<"location", "stopUpdatingLocation">>,
                             !.retLoc = IF second = None THEN None
                                        ELSE Some(CoordinateOf(second[1]))]]
    /\ updating' = FALSE
    /\ nativeCount' = nativeCount + 2
    /\ pc' = [pc EXCEPT ![t] = "idle"]
    /\ UNCHANGED <<target, nCalls, facadeVars, LOCATION_MANAGER, created,
                   authorizationStatus, location, webVars>>

\* The user answers the prompt or changes the setting; the OS restricts or resets it.
AuthorizationChange ==
    /\ target = "darwin"
    /\ \E s \in CLAuthorizationStatus \ {authorizationStatus} : authorizationStatus' = s
    /\ UNCHANGED <<commonVars, facadeVars, LOCATION_MANAGER, created, location, updating,
                   nativeCount, webVars>>

\* The system obtains a new fix, which manager.location() then answers.
LocationFix ==
    /\ target = "darwin"
    /\ \E p \in Positions : location # Some(p) /\ location' = Some(p)
    /\ UNCHANGED <<commonVars, facadeVars, LOCATION_MANAGER, created, authorizationStatus,
                   updating, nativeCount, webVars>>

\* --------------------------------------------------------------------- web.rs
\* Variant: one cell shared by all threads instead of a thread_local.
update_cached_position_shared(t, lat, lon) ==
    [u \in Threads |-> Some(<<lat, lon>>)]

\* Variant: the first cached value is kept.
update_cached_position_keep(t, lat, lon) ==
    IF CACHED_POSITION[t] = None
    THEN [CACHED_POSITION EXCEPT ![t] = Some(<<lat, lon>>)]
    ELSE CACHED_POSITION

\* update_cached_position: *pos.borrow_mut() = Some((lat, lon)) on the running thread.
update_cached_position(t, lat, lon) ==
    [CACHED_POSITION EXCEPT ![t] = Some(<<lat, lon>>)]

\* A request handed to the browser: who issued it, and whose callbacks it carries.
Request(t, kind) == [id |-> nCalls + 1, thread |-> t, kind |-> kind]

\* Variant: reports that the native call was made, not what it answered.
get_current_position_sync_made(t, op, accepted) ==
    IF ~window[t] \/ ~geolocation
    THEN /\ call' = [call EXCEPT ![t] = [NoCall EXCEPT !.op = op, !.retBool = FALSE]]
         /\ UNCHANGED <<requests, issued, latestSync>>
    ELSE /\ call' = [call EXCEPT ![t] =
                        [NoCall EXCEPT !.op = op,
                                       !.log = <<"getCurrentPosition">>,
                                       !.retBool = TRUE]]
         /\ requests' = IF accepted THEN requests \cup {Request(t, "sync")} ELSE requests
         /\ issued' = IF accepted THEN issued + 1 ELSE issued
         /\ latestSync' = IF accepted THEN [latestSync EXCEPT ![t] = nCalls + 1]
                                      ELSE latestSync

\* get_current_position_sync; `accepted` is whether the native call answered Ok.
get_current_position_sync(t, op, accepted) ==
    IF ~window[t] \/ ~geolocation
    THEN /\ call' = [call EXCEPT ![t] = [NoCall EXCEPT !.op = op, !.retBool = FALSE]]
         /\ UNCHANGED <<requests, issued, latestSync>>
    ELSE /\ call' = [call EXCEPT ![t] =
                        [NoCall EXCEPT !.op = op,
                                       !.log = <<"getCurrentPosition">>,
                                       !.retBool = accepted]]
         /\ requests' = IF accepted THEN requests \cup {Request(t, "sync")} ELSE requests
         /\ issued' = IF accepted THEN issued + 1 ELSE issued
         /\ latestSync' = IF accepted THEN [latestSync EXCEPT ![t] = nCalls + 1]
                                      ELSE latestSync

\* Variant: reports availability and drops the answer of get_current_position_sync.
web_request_permission_ignore(t, accepted) ==
    /\ IF ~window[t] \/ ~geolocation
       THEN /\ call' = [call EXCEPT ![t] =
                           [NoCall EXCEPT !.op = "request_permission", !.retBool = FALSE]]
            /\ UNCHANGED <<requests, issued, latestSync>>
       ELSE /\ call' = [call EXCEPT ![t] =
                           [NoCall EXCEPT !.op = "request_permission",
                                          !.log = <<"getCurrentPosition">>,
                                          !.retBool = TRUE]]
            /\ requests' = IF accepted THEN requests \cup {Request(t, "sync")} ELSE requests
            /\ issued' = IF accepted THEN issued + 1 ELSE issued
            /\ latestSync' = IF accepted THEN [latestSync EXCEPT ![t] = nCalls + 1]
                                         ELSE latestSync
    /\ UNCHANGED <<pc, window, geolocation, CACHED_POSITION, lastSuccess, delivered>>

web_request_permission(t, accepted) ==
    /\ IF ~window[t]
       THEN /\ call' = [call EXCEPT ![t] =
                           [NoCall EXCEPT !.op = "request_permission", !.retBool = FALSE]]
            /\ UNCHANGED <<requests, issued, latestSync>>
       ELSE IF ~geolocation
       THEN /\ call' = [call EXCEPT ![t] =
                           [NoCall EXCEPT !.op = "request_permission", !.retBool = FALSE]]
            /\ UNCHANGED <<requests, issued, latestSync>>
       ELSE get_current_position_sync(t, "request_permission", accepted)
    /\ UNCHANGED <<pc, window, geolocation, CACHED_POSITION, lastSuccess, delivered>>

\* Variant: the read takes the value out of the cell.
web_last_known_take(t) ==
    /\ call' = [call EXCEPT ![t] =
                   [NoCall EXCEPT !.op = "last_known", !.retLoc = CACHED_POSITION[t]]]
    /\ CACHED_POSITION' = [CACHED_POSITION EXCEPT ![t] = None]
    /\ UNCHANGED <<pc, window, geolocation, requests, issued, latestSync, lastSuccess,
                   delivered>>

web_last_known(t) ==
    /\ call' = [call EXCEPT ![t] =
                   [NoCall EXCEPT !.op = "last_known", !.retLoc = CACHED_POSITION[t]]]
    /\ UNCHANGED <<pc, webVars>>

\* pub fn get_current_position_sync(), called directly by the application.
GetCurrentPositionSync(t) ==
    /\ target = "web"
    /\ nCalls < MaxCalls
    /\ nCalls' = nCalls + 1
    /\ \E accepted \in BOOLEAN : get_current_position_sync(t, "get_current_position_sync", accepted)
    /\ UNCHANGED <<target, pc, facadeVars, darwinVars, window, geolocation,
                   CACHED_POSITION, lastSuccess, delivered>>

\* Variant: the answer of the native call is dropped instead of mapped to an error.
get_current_position_unchecked(t) ==
    /\ target = "web"
    /\ nCalls < MaxCalls
    /\ nCalls' = nCalls + 1
    /\ IF ~window[t] \/ ~geolocation
       THEN /\ call' = [call EXCEPT ![t] =
                           [NoCall EXCEPT !.op = "get_current_position", !.retBool = FALSE]]
            /\ UNCHANGED <<requests, issued, latestSync>>
       ELSE \E accepted \in BOOLEAN :
            /\ call' = [call EXCEPT ![t] =
                           [NoCall EXCEPT !.op = "get_current_position",
                                          !.log = <<"getCurrentPosition">>,
                                          !.retBool = TRUE]]
            /\ requests' = IF accepted THEN requests \cup {Request(t, "async")} ELSE requests
            /\ issued' = IF accepted THEN issued + 1 ELSE issued
            /\ UNCHANGED latestSync
    /\ UNCHANGED <<target, pc, facadeVars, darwinVars, window, geolocation,
                   CACHED_POSITION, lastSuccess, delivered>>

\* pub fn get_current_position(success_callback, error_callback); retBool is "returned Ok".
get_current_position(t) ==
    /\ target = "web"
    /\ nCalls < MaxCalls
    /\ nCalls' = nCalls + 1
    /\ IF ~window[t] \/ ~geolocation
       THEN /\ call' = [call EXCEPT ![t] =
                           [NoCall EXCEPT !.op = "get_current_position", !.retBool = FALSE]]
            /\ UNCHANGED <<requests, issued, latestSync>>
       ELSE \E accepted \in BOOLEAN :
            /\ call' = [call EXCEPT ![t] =
                           [NoCall EXCEPT !.op = "get_current_position",
                                          !.log = <<"getCurrentPosition">>,
                                          !.retBool = accepted]]
            /\ requests' = IF accepted THEN requests \cup {Request(t, "async")} ELSE requests
            /\ issued' = IF accepted THEN issued + 1 ELSE issued
            /\ UNCHANGED latestSync
    /\ UNCHANGED <<target, pc, facadeVars, darwinVars, window, geolocation,
                   CACHED_POSITION, lastSuccess, delivered>>

\* Variant: the caller's position is also stored in the cache.
PositionSuccess_asyncCaches(r, pos) ==
    /\ target = "web"
    /\ r \in requests
    /\ requests' = requests \ {r}
    /\ CACHED_POSITION' = update_cached_position(r.thread, pos.latitude, pos.longitude)
    /\ IF r.kind = "sync"
       THEN /\ lastSuccess' = [lastSuccess EXCEPT ![r.thread] =
                                  Some(<<pos.latitude, pos.longitude>>)]
            /\ UNCHANGED delivered
       ELSE /\ delivered' = [delivered EXCEPT ![r.thread] = Some(pos)]
            /\ UNCHANGED lastSuccess
    /\ UNCHANGED <<commonVars, facadeVars, darwinVars, window, geolocation, issued,
                   latestSync>>

\* Variant: only the closure of the most recent request may write.
PositionSuccess_latestOnly(r, pos) ==
    /\ target = "web"
    /\ r \in requests
    /\ requests' = requests \ {r}
    /\ IF r.kind = "sync"
       THEN /\ CACHED_POSITION' =
                  IF r.id = latestSync[r.thread]
                  THEN update_cached_position(r.thread, pos.latitude, pos.longitude)
                  ELSE CACHED_POSITION
            /\ lastSuccess' = [lastSuccess EXCEPT ![r.thread] =
                                  Some(<<pos.latitude, pos.longitude>>)]
            /\ UNCHANGED delivered
       ELSE /\ delivered' = [delivered EXCEPT ![r.thread] = Some(pos)]
            /\ UNCHANGED <<CACHED_POSITION, lastSuccess>>
    /\ UNCHANGED <<commonVars, facadeVars, darwinVars, window, geolocation, issued,
                   latestSync>>

\* The browser fires the success callback of an outstanding request, on its thread.
PositionSuccess(r, pos) ==
    /\ target = "web"
    /\ r \in requests
    /\ requests' = requests \ {r}
    /\ IF r.kind = "sync"
       THEN /\ CACHED_POSITION' = update_cached_position(r.thread, pos.latitude, pos.longitude)
            /\ lastSuccess' = [lastSuccess EXCEPT ![r.thread] =
                                  Some(<<pos.latitude, pos.longitude>>)]
            /\ UNCHANGED delivered
       ELSE /\ delivered' = [delivered EXCEPT ![r.thread] = Some(pos)]
            /\ UNCHANGED <<CACHED_POSITION, lastSuccess>>
    /\ UNCHANGED <<commonVars, facadeVars, darwinVars, window, geolocation, issued,
                   latestSync>>

\* Variant: the error callback asks again.
PositionError_retry(r) ==
    /\ target = "web"
    /\ r \in requests
    /\ issued < MaxCalls
    /\ requests' = requests
    /\ issued' = issued + 1
    /\ UNCHANGED <<commonVars, facadeVars, darwinVars, window, geolocation,
                   CACHED_POSITION, latestSync, lastSuccess, delivered>>

\* The browser fires the error callback (denial, timeout, position unavailable).
PositionError(r) ==
    /\ target = "web"
    /\ r \in requests
    /\ requests' = requests \ {r}
    /\ UNCHANGED <<commonVars, facadeVars, darwinVars, window, geolocation,
                   CACHED_POSITION, issued, latestSync, lastSuccess, delivered>>

\* ---------------------------------------------------------------- unsupported
\* The stub backend of unsupported targets: constant answers, no state.
unsupported_request_permission(t) ==
    /\ call' = [call EXCEPT ![t] =
                   [NoCall EXCEPT !.op = "request_permission", !.retBool = FALSE]]
    /\ UNCHANGED pc

unsupported_last_known(t) ==
    /\ call' = [call EXCEPT ![t] = [NoCall EXCEPT !.op = "last_known", !.retLoc = None]]
    /\ UNCHANGED pc

\* --------------------------------------------------------------------- lib.rs
\* The permission constants that exist under `#[cfg(feature = ...)]`.
CompiledDeclarations(fs) ==
    (IF "location-fine" \in fs THEN {"LOCATION_FINE"} ELSE {})
      \cup (IF "location-coarse" \in fs THEN {"LOCATION_COARSE"} ELSE {})
      \cup (IF "background-location" \in fs THEN {"BACKGROUND_LOCATION"} ELSE {})

\* The Custom { ... } identifiers of BACKGROUND_LOCATION.
BACKGROUND_LOCATION ==
    [ android |-> "android.permission.ACCESS_BACKGROUND_LOCATION",
      ios |-> "NSLocationAlwaysAndWhenInUseUsageDescription",
      macos |-> "NSLocationUsageDescription",
      windows |-> "location",
      linux |-> "",
      web |-> "" ]

\* Variant: the background declaration is not referenced.
ensure_permissions_linked_two(fs) ==
    (IF "location-fine" \in fs THEN {"LOCATION_FINE"} ELSE {})
      \cup (IF "location-coarse" \in fs THEN {"LOCATION_COARSE"} ELSE {})

\* __ensure_permissions_linked: the declarations `let _ = &X;` touches.
ensure_permissions_linked(fs) ==
    (IF "location-fine" \in fs THEN {"LOCATION_FINE"} ELSE {})
      \cup (IF "location-coarse" \in fs THEN {"LOCATION_COARSE"} ELSE {})
      \cup (IF "background-location" \in fs THEN {"BACKGROUND_LOCATION"} ELSE {})

NoFacadeCall == [op |-> "none", thread |-> MainThread, touched |-> {}, steps |-> <<>>]

\* What a facade call did: the two link guarantees, then the adapter it returned from.
Dispatched(t, op, adapter) ==
    [ op |-> op, thread |-> t, touched |-> ensure_permissions_linked(features),
      steps |-> <<"__ensure_permissions_linked", "__ensure_metadata_linked", adapter>> ]

request_location_permission(t) ==
    /\ nCalls < MaxCalls
    /\ pc[t] = "idle"
    /\ nCalls' = nCalls + 1
    /\ UNCHANGED <<target, features>>
    /\ \/ /\ target = "darwin"
          /\ facade' = Dispatched(t, "request_location_permission", "darwin::request_permission")
          /\ darwin_request_permission(t)
          /\ UNCHANGED webVars
       \/ /\ target = "web"
          /\ facade' = Dispatched(t, "request_location_permission", "web::request_permission")
          /\ \E accepted \in BOOLEAN : web_request_permission(t, accepted)
          /\ UNCHANGED darwinVars
       \/ /\ target = "unsupported"
          /\ facade' = Dispatched(t, "request_location_permission",
                                  "unsupported::request_permission")
          /\ unsupported_request_permission(t)
          /\ UNCHANGED <<darwinVars, webVars>>

\* Variant: dispatches without the link guarantee.
last_known_location_nolink(t) ==
    /\ nCalls < MaxCalls
    /\ pc[t] = "idle"
    /\ nCalls' = nCalls + 1
    /\ UNCHANGED <<target, features>>
    /\ \/ /\ target = "darwin"
          /\ facade' = [op |-> "last_known_location", thread |-> t, touched |-> {},
                        steps |-> <<"darwin::last_known">>]
          /\ darwin_last_known(t)
          /\ UNCHANGED webVars
       \/ /\ target = "web"
          /\ facade' = [op |-> "last_known_location", thread |-> t, touched |-> {},
                        steps |-> <<"web::last_known">>]
          /\ web_last_known(t)
          /\ UNCHANGED darwinVars
       \/ /\ target = "unsupported"
          /\ facade' = [op |-> "last_known_location", thread |-> t, touched |-> {},
                        steps |-> <<"unsupported::last_known">>]
          /\ unsupported_last_known(t)
          /\ UNCHANGED <<darwinVars, webVars>>

\* Variant: the cfg of the darwin arm also matches the unsupported targets.
last_known_location_miscfg(t) ==
    /\ nCalls < MaxCalls
    /\ pc[t] = "idle"
    /\ nCalls' = nCalls + 1
    /\ UNCHANGED <<target, features>>
    /\ \/ /\ target \in {"darwin", "unsupported"}
          /\ facade' = Dispatched(t, "last_known_location", "darwin::last_known")
          /\ darwin_last_known(t)
          /\ UNCHANGED webVars
       \/ /\ target = "web"
          /\ facade' = Dispatched(t, "last_known_location", "web::last_known")
          /\ web_last_known(t)
          /\ UNCHANGED darwinVars

last_known_location(t) ==
    /\ nCalls < MaxCalls
    /\ pc[t] = "idle"
    /\ nCalls' = nCalls + 1
    /\ UNCHANGED <<target, features>>
    /\ \/ /\ target = "darwin"
          /\ facade' = Dispatched(t, "last_known_location", "darwin::last_known")
          /\ darwin_last_known(t)
          /\ UNCHANGED webVars
       \/ /\ target = "web"
          /\ facade' = Dispatched(t, "last_known_location", "web::last_known")
          /\ web_last_known(t)
          /\ UNCHANGED darwinVars
       \/ /\ target = "unsupported"
          /\ facade' = Dispatched(t, "last_known_location", "unsupported::last_known")
          /\ unsupported_last_known(t)
          /\ UNCHANGED <<darwinVars, webVars>>

\* ------------------------------------------------------------- specification
\* Everything but the build configuration and the environment the process starts in.
InitProcess ==
    /\ nCalls = 0
    /\ call = [t \in Threads |-> NoCall]
    /\ pc = [t \in Threads |-> "idle"]
    /\ LOCATION_MANAGER = None
    /\ created = 0
    /\ updating = FALSE
    /\ nativeCount = 0
    /\ facade = NoFacadeCall
    /\ CACHED_POSITION = [t \in Threads |-> None]
    /\ requests = {}
    /\ issued = 0
    /\ latestSync = [t \in Threads |-> 0]
    /\ lastSuccess = [t \in Threads |-> None]
    /\ delivered = [t \in Threads |-> None]

\* A default build for any target, started in any environment.
Init ==
    /\ target \in Targets
    /\ features = DefaultFeatures
    /\ InitProcess
    /\ IF target = "darwin"
       THEN /\ authorizationStatus \in CLAuthorizationStatus
            /\ location \in OptionPositions
       ELSE /\ authorizationStatus = "NotDetermined"
            /\ location = None
    /\ IF target = "web"
       THEN /\ window \in [Threads -> BOOLEAN]
            /\ geolocation \in BOOLEAN
       ELSE /\ window = [t \in Threads |-> FALSE]
            /\ geolocation = FALSE

Next ==
    \/ \E t \in Threads : request_location_permission(t)
    \/ \E t \in Threads : last_known_location(t)
    \/ \E t \in Threads : darwin_last_known_wake(t)
    \/ AuthorizationChange
    \/ LocationFix
    \/ \E t \in Threads : GetCurrentPositionSync(t)
    \/ \E t \in Threads : get_current_position(t)
    \/ \E r \in requests, pos \in Positions : PositionSuccess(r, pos)
    \/ \E r \in requests : PositionError(r)

Spec == Init /\ [][Next]_vars

\* Every build: any target and any subset of the features, started where nothing is
\* decided yet (no authorization, no fix; a window with the geolocation API on the main
\* thread), and driven through the two facade operations only.
InitBuilds ==
    /\ target \in Targets
    /\ features \in SUBSET Features
    /\ InitProcess
    /\ authorizationStatus = "NotDetermined"
    /\ location = None
    /\ window = [t \in Threads |-> target = "web" /\ t = MainThread]
    /\ geolocation = (target = "web")

NextBuilds ==
    \/ \E t \in Threads : request_location_permission(t)
    \/ \E t \in Threads : last_known_location(t)
    \/ \E t \in Threads : darwin_last_known_wake(t)

SpecBuilds == InitBuilds /\ [][NextBuilds]_vars

\* --------------------------------------------------------------------- claims
FastPathLog == <<"authorizationStatus", "location">>
SlowPathLog == <<"authorizationStatus", "location", "startUpdatingLocation", "sleep",
                 "location", "stopUpdatingLocation">>
\* Option<CLLocation> -> Option<(f64, f64)>, written out field by field.
AsPair(optLoc) ==
    IF optLoc = None THEN None ELSE Some(<<optLoc[1].latitude, optLoc[1].longitude>>)

\* C1: on the darwin backend a request_permission() or last_known() call made off the
\* main thread returns false / None and performs no native call: the manager is not
\* created and nothing is queried, prompted, started or stopped.
C1_OffThreadNoNativeCalls ==
    [][\A t \in Threads \ {MainThread} :
          (target = "darwin" /\ (request_location_permission(t) \/ last_known_location(t)))
          => /\ call'[t].done
             /\ call'[t].retBool = FALSE
             /\ call'[t].retLoc = None
             /\ call'[t].log = <<>>
             /\ pc'[t] = "idle"
             /\ nativeCount' = nativeCount
             /\ LOCATION_MANAGER' = LOCATION_MANAGER
             /\ created' = created
             /\ UNCHANGED <<authorizationStatus, location, updating>>]_vars

\* An off-thread last_known() answered None although the manager exists and holds a fix.
C1_Witness ==
    /\ target = "darwin"
    /\ call["worker"].op = "last_known"
    /\ call["worker"].retLoc = None
    /\ LOCATION_MANAGER # None
    /\ location # None

\* C2: on the web backend last_known() returns None while no success callback has fired
\* and otherwise the coordinate of the most recent success callback; an error callback
\* leaves the cache alone and the cache never goes back to None.
C2_CacheFollowsLastSuccess ==
    [][/\ \A t \in Threads :
             (target = "web" /\ last_known_location(t)) => call'[t].retLoc = lastSuccess[t]
       /\ \A r \in requests : PositionError(r) => CACHED_POSITION' = CACHED_POSITION
       /\ \A t \in Threads : CACHED_POSITION[t] # None => CACHED_POSITION'[t] # None]_vars

\* last_known() returned a coordinate after two success callbacks had fired.
C2_Witness ==
    /\ target = "web"
    /\ issued = 2
    /\ requests = {}
    /\ \E t \in Threads : /\ call[t].op = "last_known"
                          /\ call[t].retLoc # None
                          /\ call[t].retLoc = lastSuccess[t]

\* C3: a darwin request_permission() on the main thread issues the when-in-use prompt
\* exactly once if the status it observed is NotDetermined and never otherwise.
C3_PromptIffNotDetermined ==
    (target = "darwin" /\ call[MainThread].op = "request_permission")
    => /\ call[MainThread].auth \in CLAuthorizationStatus
       /\ Count(call[MainThread].log, "requestWhenInUseAuthorization")
            = (IF call[MainThread].auth = "NotDetermined" THEN 1 ELSE 0)

C3_Witness ==
    /\ target = "darwin"
    /\ call[MainThread].op = "request_permission"
    /\ call[MainThread].auth = "NotDetermined"
    /\ Count(call[MainThread].log, "requestWhenInUseAuthorization") = 1

\* C4: a darwin last_known() that started location updates stops them before it returns,
\* fix or no fix; between calls the manager is never left updating.
C4_NoLeakedUpdating ==
    target = "darwin"
    => /\ updating <=> (\E t \in Threads : pc[t] = "sleep")
       /\ \A t \in Threads :
             (call[t].done /\ Count(call[t].log, "startUpdatingLocation") > 0)
             => call[t].log[Len(call[t].log)] = "stopUpdatingLocation"

\* A slow-path call came back without a fix and the updates are off.
C4_Witness ==
    /\ target = "darwin"
    /\ call[MainThread].op = "last_known"
    /\ call[MainThread].done
    /\ Count(call[MainThread].log, "startUpdatingLocation") = 1
    /\ call[MainThread].retLoc = None
    /\ ~updating

\* C5: last_known_location() returns None whenever the authorization status is Denied or
\* Restricted, also on the darwin backend and even if the manager still holds a fix.
C5_NoneWhenNotGranted ==
    \A t \in Threads :
        (call[t].op = "last_known" /\ call[t].done /\ call[t].auth \in {"Denied", "Restricted"})
        => call[t].retLoc = None

C7_RequestPermissionTrue ==
    (target = "darwin" /\ call[MainThread].op = "request_permission")
    => call[MainThread].retBool = TRUE

C7_Witness ==
    /\ target = "darwin"
    /\ call[MainThread].op = "request_permission"
    /\ call[MainThread].auth = "Denied"
    /\ call[MainThread].log = <<"authorizationStatus">>
    /\ call[MainThread].retBool = TRUE

\* C8: when the manager holds a fix at the first query, a darwin last_known() on the main
\* thread returns exactly that fix and does not start updates, wait or stop updates.
C8_FastPath ==
    [][(target = "darwin" /\ location # None /\ last_known_location(MainThread))
       => /\ call'[MainThread].done
          /\ call'[MainThread].retLoc = AsPair(location)
          /\ call'[MainThread].log = FastPathLog
          /\ pc'[MainThread] = "idle"
          /\ updating' = updating]_vars

C8_Witness ==
    /\ target = "darwin"
    /\ call[MainThread].op = "last_known"
    /\ call[MainThread].first # None
    /\ call[MainThread].retLoc = AsPair(call[MainThread].first)
    /\ call[MainThread].log = FastPathLog

\* C9: on the slow path a darwin last_known() performs, in this order, one
\* startUpdatingLocation, one wait, one re-query and one stopUpdatingLocation, and
\* returns what the re-query answered: the fix acquired during the wait, else None.
C9_SlowPath ==
    [][\A t \in Threads :
          (target = "darwin" /\ pc[t] = "sleep" /\ pc'[t] = "idle")
          => /\ call'[t].done
             /\ call'[t].first = None
             /\ call'[t].log = SlowPathLog
             /\ call'[t].retLoc = AsPair(location)
             /\ ~updating']_vars

\* The fix arrived during the wait and was returned.
C9_Witness ==
    /\ target = "darwin"
    /\ call[MainThread].op = "last_known"
    /\ call[MainThread].done
    /\ call[MainThread].first = None
    /\ call[MainThread].log = SlowPathLog
    /\ call[MainThread].retLoc # None

\* C10 as stated: a web request_permission() returns true iff a window exists and the
\* geolocation API is available, and then triggers exactly one position request; when
\* unavailable it returns false and issues none.
C10_ReturnsAvailability ==
    \A t \in Threads :
        (target = "web" /\ call[t].op = "request_permission")
        => /\ call[t].retBool <=> (window[t] /\ geolocation)
           /\ Count(call[t].log, "getCurrentPosition")
                = (IF window[t] /\ geolocation THEN 1 ELSE 0)

\* C10 amended: it returns true iff a window exists, the API is available and the native
\* request call was accepted; when available it makes exactly one native request call,
\* which leaves one request outstanding iff it was accepted; when unavailable it returns
\* false and makes none.
C10_ReturnsIssued ==
    [][\A t \in Threads :
          (target = "web" /\ request_location_permission(t))
          => LET avail == window[t] /\ geolocation IN
             /\ Count(call'[t].log, "getCurrentPosition") = (IF avail THEN 1 ELSE 0)
             /\ call'[t].retBool <=> (avail /\ issued' = issued + 1)
             /\ issued' = issued + (IF call'[t].retBool THEN 1 ELSE 0)
             /\ Cardinality(requests') = Cardinality(requests)
                                           + (IF call'[t].retBool THEN 1 ELSE 0)
             /\ ~avail => (requests' = requests /\ call'[t].retBool = FALSE)]_vars

\* Available, the native call was rejected, and request_permission() returned false.
C10_Witness ==
    /\ target = "web"
    /\ \E t \in Threads : /\ call[t].op = "request_permission"
                          /\ window[t] /\ geolocation
                          /\ call[t].log = <<"getCurrentPosition">>
                          /\ call[t].retBool = FALSE
                          /\ issued = 0

\* A step in which the browser fires a callback of an outstanding request.
CallbackStep == requests' # requests /\ requests' \subseteq requests

\* C11: get_current_position_sync() returns true iff the native position request was
\* issued (window, API available, native call accepted); the value is fixed at call
\* time, whatever callback follows, and the call itself never writes the cache.
C11_SyncReturnsIssued ==
    [][/\ \A t \in Threads :
             GetCurrentPositionSync(t)
             => /\ call'[t].retBool <=> (window[t] /\ geolocation /\ issued' = issued + 1)
                /\ call'[t].retBool <=>
                      (\E r \in requests' \ requests :
                           r.thread = t /\ r.kind = "sync" /\ requests' = requests \cup {r})
                /\ ~call'[t].retBool => (requests' = requests /\ issued' = issued)
                /\ CACHED_POSITION' = CACHED_POSITION
       /\ CallbackStep => call' = call]_vars

\* The request was issued (true was returned) and then ended in an error callback.
C11_Witness ==
    /\ target = "web"
    /\ \E t \in Threads : /\ call[t].op = "get_current_position_sync"
                          /\ call[t].retBool = TRUE
                          /\ CACHED_POSITION[t] = None
    /\ issued = 1
    /\ requests = {}
    /\ lastSuccess = [t \in Threads |-> None]

\* C12: get_current_position(success, error) returns an error exactly when there is no
\* window, the API is unavailable or the native call rejects synchronously; otherwise
\* Ok, also when the fetch fails later (only the caller's error callback hears of it).
C12_AsyncErrorsOnlyAtIssue ==
    [][/\ \A t \in Threads :
             get_current_position(t)
             => /\ ~call'[t].retBool <=>
                      (~window[t] \/ ~geolocation
                         \/ (Count(call'[t].log, "getCurrentPosition") = 1
                               /\ issued' = issued))
                /\ call'[t].retBool <=>
                      (\E r \in requests' \ requests : r.thread = t /\ r.kind = "async")
       /\ \A r \in requests :
             (r.kind = "async" /\ PositionError(r)) => call' = call]_vars

\* Ok was returned and the request then ended in the error callback.
C12_Witness ==
    /\ target = "web"
    /\ \E t \in Threads : /\ call[t].op = "get_current_position"
                          /\ call[t].retBool = TRUE
                          /\ delivered[t] = None
    /\ issued = 1
    /\ requests = {}

\* The adapter function a facade operation must end in on each target.
AdapterOf(tg, op) ==
    IF op = "request_location_permission"
    THEN (CASE tg = "darwin" -> "darwin::request_permission"
            [] tg = "web" -> "web::request_permission"
            [] OTHER -> "unsupported::request_permission")
    ELSE (CASE tg = "darwin" -> "darwin::last_known"
            [] tg = "web" -> "web::last_known"
            [] OTHER -> "unsupported::last_known")

Adapters ==
    { AdapterOf(tg, op) : tg \in Targets,
                          op \in {"request_location_permission", "last_known_location"} }

C14_StubIsConstant ==
    target = "unsupported"
    => /\ \A t \in Threads :
             /\ call[t].done
             /\ call[t].retBool = FALSE
             /\ call[t].retLoc = None
             /\ call[t].log = <<>>
             /\ pc[t] = "idle"
       /\ LOCATION_MANAGER = None /\ created = 0 /\ nativeCount = 0 /\ ~updating
       /\ authorizationStatus = "NotDetermined" /\ location = None
       /\ requests = {} /\ issued = 0
       /\ CACHED_POSITION = [t \in Threads |-> None]
       /\ delivered = [t \in Threads |-> None]

\* Both operations were called MaxCalls times in all on the stub.
C14_Witness ==
    /\ target = "unsupported"
    /\ nCalls = MaxCalls
    /\ call[MainThread].op = "request_permission"
    /\ call["worker"].op = "last_known"

\* The declaration each feature stands for.
DeclarationFor(f) ==
    CASE f = "location-fine" -> "LOCATION_FINE"
      [] f = "location-coarse" -> "LOCATION_COARSE"
      [] OTHER -> "BACKGROUND_LOCATION"

SyncSuccessOn(t) ==
    \E r \in requests \ requests' : r.thread = t /\ r.kind = "sync" /\ lastSuccess' # lastSuccess

\* C16 as stated: the cache is written only by the success callback of the most recent position
\* request: a success callback of an earlier request never overwrites the cache once a
\* later request has been issued.
C16_OnlyLatestRequestWrites ==
    [][\A t \in Threads :
          CACHED_POSITION'[t] # CACHED_POSITION[t]
          => \E r \in requests \ requests' :
                r.thread = t /\ r.kind = "sync" /\ r.id = latestSync[t]]_vars

\* C16 amended: the cache is written only by success callbacks of the requests of
\* get_current_position_sync() / request_permission(), and by each of them when it fires,
\* an earlier request's after a later request was issued included: the cache holds the
\* coordinate of the callback that fired last.
C16_LastFiredCallbackWrites ==
    [][\A t \in Threads :
          /\ CACHED_POSITION'[t] # CACHED_POSITION[t]
             => \E r \in requests \ requests' : r.thread = t /\ r.kind = "sync"
          /\ SyncSuccessOn(t) => CACHED_POSITION'[t] = lastSuccess'[t]]_vars

\* The cache was written while the most recent request of the thread is still outstanding.
C16_Witness ==
    /\ target = "web"
    /\ \E r \in requests : /\ r.kind = "sync"
                            /\ r.id = latestSync[r.thread]
                            /\ CACHED_POSITION[r.thread] # None

\* C17: the native location manager is created at most once, by the first main-thread
\* call and on the main thread only, and the handle is never replaced or destroyed.
C17_ManagerCreatedOnce ==
    [][/\ created' \in {0, 1}
       /\ LOCATION_MANAGER' = None <=> created' = 0
       /\ LOCATION_MANAGER # None => LOCATION_MANAGER' = LOCATION_MANAGER
       /\ created' # created
          => /\ call[MainThread].op = "none"
             /\ request_location_permission(MainThread) \/ last_known_location(MainThread)
       /\ (target = "darwin" /\ call'[MainThread].op # "none") => LOCATION_MANAGER' # None
       /\ \A t \in Threads \ {MainThread} :
             call'[t] # call[t] => LOCATION_MANAGER' = LOCATION_MANAGER]_vars

\* Three calls, from both threads, and still the one manager.
C17_Witness ==
    /\ target = "darwin"
    /\ nCalls = MaxCalls
    /\ call[MainThread].op # "none"
    /\ call["worker"].op # "none"
    /\ created = 1
    /\ LOCATION_MANAGER = Some(1)

\* C18: nothing is retried. On the web backend a native request is issued only inside an
\* API call, at most one per call; an error callback records nothing and issues nothing.
\* On the darwin backend a slow-path miss returns None after one start / wait /
\* re-query / stop cycle.
C18_NoRetry ==
    [][/\ nCalls' = nCalls => (issued' = issued /\ requests' \subseteq requests)
       /\ \A r \in requests :
             PositionError(r)
             => /\ requests' = requests \ {r}
                /\ UNCHANGED <<CACHED_POSITION, lastSuccess, delivered, issued, call>>
       /\ \A t \in Threads :
             (target = "web" /\ (request_location_permission(t) \/ GetCurrentPositionSync(t)
                                    \/ get_current_position(t)))
             => LET made == Count(call'[t].log, "getCurrentPosition")
                    accepted == IF made = 1 /\ call'[t].retBool THEN 1 ELSE 0
                IN /\ made \in {0, 1}
                   /\ issued' = issued + accepted
                   /\ Cardinality(requests') = Cardinality(requests) + accepted
       /\ \A t \in Threads :
             (target = "darwin" /\ pc[t] = "sleep" /\ pc'[t] = "idle" /\ location = None)
             => /\ call'[t].done
                /\ call'[t].retLoc = None
                /\ Count(call'[t].log, "startUpdatingLocation") = 1
                /\ Count(call'[t].log, "sleep") = 1
                /\ Count(call'[t].log, "location") = 2
                /\ Count(call'[t].log, "stopUpdatingLocation") = 1
                /\ ~updating']_vars

\* Two requests were issued, both ended without a success, and nothing is left behind.
C18_Witness ==
    /\ target = "web"
    /\ issued = 2
    /\ requests = {}
    /\ lastSuccess = [t \in Threads |-> None]
    /\ delivered = [t \in Threads |-> None]
    /\ CACHED_POSITION = [t \in Threads |-> None]

\* C19: the web last_known() is a pure read: no native request, cache unchanged, and a
\* last_known() that follows another with no success callback in between returns the
\* same value.
C19_LastKnownPureRead ==
    [][\A t \in Threads :
          /\ (target = "web" /\ last_known_location(t))
             => /\ UNCHANGED webVars
                /\ call'[t].log = <<>>
                /\ call'[t].retLoc = CACHED_POSITION[t]
          /\ (target = "web" /\ call[t].op = "last_known"
                /\ call[t].retLoc = CACHED_POSITION[t] /\ ~SyncSuccessOn(t))
             => /\ CACHED_POSITION'[t] = CACHED_POSITION[t]
                /\ call'[t].op = "last_known" => call'[t].retLoc = call[t].retLoc]_vars

\* A populated cache was read and still holds what was read.
C19_Witness ==
    /\ target = "web"
    /\ nCalls = MaxCalls
    /\ \E t \in Threads : /\ call[t].op = "last_known"
                          /\ call[t].retLoc # None
                          /\ call[t].retLoc = CACHED_POSITION[t]
                          /\ latestSync[t] = 1

\* C20: the cache is confined to a thread: a success callback writes the cell of its own
\* thread only, last_known() on a thread returns what the last success callback on that
\* thread wrote, and a thread without one reads None.
C20_CacheThreadConfined ==
    [][/\ \A t \in Threads :
             SyncSuccessOn(t)
             => \A u \in Threads \ {t} : CACHED_POSITION'[u] = CACHED_POSITION[u]
       /\ \A t \in Threads : lastSuccess'[t] = None => CACHED_POSITION'[t] = None
       /\ \A t \in Threads :
             (target = "web" /\ last_known_location(t))
             => /\ lastSuccess[t] = None => call'[t].retLoc = None
                /\ call'[t].retLoc # None => call'[t].retLoc = lastSuccess[t]]_vars

\* The main thread holds a position; the worker, without a success of its own, read None.
C20_Witness ==
    /\ target = "web"
    /\ CACHED_POSITION[MainThread] # None
    /\ lastSuccess["worker"] = None
    /\ call["worker"].op = "last_known"
    /\ call["worker"].retLoc = None
    /\ nCalls = latestSync[MainThread] + 1

\* C21: the explicit get_current_position(success, error) never writes the cache: neither
\* the call nor a callback of its request changes what last_known() returns, which stays
\* None as long as no request of get_current_position_sync() / request_permission()
\* has succeeded.
C21_AsyncNeverWritesCache ==
    [][/\ \A t \in Threads :
             get_current_position(t) => UNCHANGED <<CACHED_POSITION, lastSuccess>>
       /\ \A r \in requests :
             (r.kind = "async" /\ requests' = requests \ {r})
             => /\ CACHED_POSITION' = CACHED_POSITION
                /\ \A t \in Threads :
                      (call[t].op = "last_known" /\ call[t].retLoc = CACHED_POSITION[t])
                      => call'[t].retLoc = CACHED_POSITION'[t]
       /\ \A t \in Threads : lastSuccess'[t] = None => CACHED_POSITION'[t] = None]_vars

\* A position reached the caller's success callback, and last_known() on that thread,
\* the only other call made, answered None from a cache that is still empty.
C21_Witness ==
    /\ target = "web"
    /\ nCalls = 2
    /\ issued = 1
    /\ requests = {}
    /\ \E t \in Threads : /\ delivered[t] # None
                          /\ CACHED_POSITION[t] = None
                          /\ call[t].op = "last_known"
                          /\ call[t].retLoc = None
                          /\ \A u \in Threads \ {t} : call[u].op = "none"

====
